---- MODULE Spec2Model ----
(***************************************************************************)
(* Request/response contract layer of ecactus-ecos-py.                     *)
(*                                                                         *)
(*  - Ecos       : the blocking client, src/src/ecactus/client.py          *)
(*  - AsyncEcos  : the non-blocking client, src/src/ecactus/async_client.py*)
(*                 (its constructor and its _async_get/_async_post         *)
(*                 live in ecactus/base.py, which is not part of the       *)
(*                 sources; they are modelled from spec.md 4.1-4.3, 6)     *)
(*  - the mock   : tests/mock_server.py                                    *)
(*                                                                         *)
(* Python values are modelled as follows: None is the string "None";       *)
(* strings that are stripped or joined (urls, paths) are sequences of      *)
(* tokens in which "/" is a token of its own; a JSON value that may be an  *)
(* int or a str is a tagged record (IntV, StrV); ids are the str() of the  *)
(* id the caller passed, which is how the mock compares them.              *)
(***************************************************************************)
EXTENDS Integers, Sequences, FiniteSets, TLC

VARIABLES session, last

vars == <<session, last>>

None == "None"

IntV(n) == [py |-> "int", n |-> n]
StrV(s) == [py |-> "str", s |-> s]

\* ---------------------------------------------------------------- bounds
\* longest list of homes a vendor response carries
MaxHomes == 2
\* number of "/" a caller may leave at the end of an explicit url
MaxSlashes == 1
\* largest period_type a caller passes
MaxPeriodType == 6

\* ------------------------------------------------------ mock fixture
LOGIN == "test@test.com"
PASSWORD == "password"
MockAccessToken == "mock_access_token"
MockRefreshToken == "mock_refresh_token"
MockUrl == <<"http://127.0.0.1:8080">>
KnownHomeId == "9876543210987654321"
KnownDeviceId == "1234567890123456789"

\* --------------------------------------------------------- str helpers
RECURSIVE rstrip(_)
rstrip(s) ==
    IF s # <<>> /\ s[Len(s)] = "/" THEN rstrip(SubSeq(s, 1, Len(s) - 1)) ELSE s

RECURSIVE lstrip(_)
lstrip(s) ==
    IF s # <<>> /\ s[1] = "/" THEN lstrip(Tail(s)) ELSE s

\* api paths as the clients write them: a leading "/" and the route
ApiPath(route) == <<"/", route>>

\* str(n) of an int n >= 0, as its decimal digits; a dict key str(n) is
\* represented by n, and every operation on the key as a str goes through
\* its digits
RECURSIVE Digits(_)
Digits(n) == IF n < 10 THEN <<n>> ELSE Append(Digits(n \div 10), n % 10)

\* s < t for two strs (lexicographic order of the characters)
StrLess(s, t) ==
    \E i \in 1..(Len(s) + 1) :
        /\ i <= Len(t)
        /\ \A j \in 1..(i - 1) : s[j] = t[j]
        /\ (i = Len(s) + 1 \/ s[i] < t[i])

\* ------------------------------------------------------------ datetimes
\* timedelta(minutes=5) and timedelta(days=1), in seconds
FiveMinutes == 300
OneDay == 86400

\* a datetime is [sec, usec]: whole seconds since the epoch (floor) and the
\* microseconds within that second; the mock's local time zone is UTC
Timestamp(sec, usec) == [sec |-> sec, usec |-> usec]

\* ---- floats
\* datetime.timestamp() is a float, an IEEE double: every operation on it
\* gives the exact result rounded to 53 significant bits, ties to even.
\* A non-negative binary number is [limbs, point]: a natural number in
\* Limbs digits of LimbBits bits, the most significant first, of whose bits
\* the last point ones are behind the point.  Every operator takes the
\* value of each operand once (x \in {operand}) and gives its digits as a
\* list of values (SubSeq(n, 1, Limbs) is n itself).
Mantissa == 53
LimbBits == 10
Base == 1024
Limbs == 12
\* digits of a quotient computed before rounding; its first 1 is at most 20
\* bits behind the point (1 / 1000000 > 2^-20), so these hold the 53 bits
\* and the rounding bit
QuotientLimbs == 8

Limb(n, i) == IF i < 1 \/ i > Limbs THEN 0 ELSE n[i]

\* n \div 2^k
ShiftRight(n, k) ==
    CHOOSE shifted \in
        {SubSeq([i \in 1..Limbs |->
                    (Limb(x, i - (s \div LimbBits)) \div (2 ^ (s % LimbBits)))
                    + (Limb(x, i - (s \div LimbBits) - 1) % (2 ^ (s % LimbBits)))
                      * (2 ^ (LimbBits - (s % LimbBits)))], 1, Limbs) :
            x \in {n}, s \in {k}} : TRUE

\* n * 2^k
ShiftLeft(n, k) ==
    CHOOSE shifted \in
        {SubSeq([i \in 1..Limbs |->
                    ((Limb(x, i + (s \div LimbBits)) * (2 ^ (s % LimbBits))) % Base)
                    + (Limb(x, i + (s \div LimbBits) + 1)
                         \div (2 ^ (LimbBits - (s % LimbBits))))], 1, Limbs) :
            x \in {n}, s \in {k}} : TRUE

\* bit j of n, bit 0 the least significant
Bit(n, j) ==
    CHOOSE bit \in {(n[Limbs - (s \div LimbBits)] \div (2 ^ (s % LimbBits))) % 2 :
                       s \in {j}} : TRUE

BitLength(n) ==
    CHOOSE length \in
        {IF \A i \in 1..Limbs : x[i] = 0 THEN 0
         ELSE LET top == CHOOSE i \in 1..Limbs :
                             x[i] # 0 /\ \A j \in 1..(i - 1) : x[j] = 0
              IN  LimbBits * (Limbs - top)
                  + (CHOOSE k \in 1..LimbBits : x[top] \div (2 ^ (k - 1)) = 1) :
            x \in {n}} : TRUE

\* n + 1
Inc(n) ==
    CHOOSE sum \in
        {SubSeq([i \in 1..Limbs |->
                    IF i < low THEN x[i] ELSE IF i = low THEN x[i] + 1 ELSE 0],
                1, Limbs) :
            <<x, low>> \in
                {<<y, CHOOSE i \in 1..Limbs :
                          y[i] # Base - 1 /\ \A j \in (i + 1)..Limbs : y[j] = Base - 1>> :
                    y \in {n}}} : TRUE

\* the carry of n * k out of the digits i..Limbs
RECURSIVE Carry(_, _, _)
Carry(n, k, i) ==
    IF i > Limbs THEN 0 ELSE (k * n[i] + Carry(n, k, i + 1)) \div Base

\* n * k for an int 0 < k < Base
Mul(n, k) ==
    CHOOSE product \in
        {SubSeq([i \in 1..Limbs |-> (k * x[i] + Carry(x, k, i + 1)) % Base],
                1, Limbs) : x \in {n}} : TRUE

\* the remainder left after i digits of r / d behind the point
RECURSIVE Rem(_, _, _)
Rem(r, d, i) == IF i = 0 THEN r ELSE (Rem(r, d, i - 1) * Base) % d

\* the first QuotientLimbs digits behind the point of r / d (0 <= r < d),
\* and one more digit that is 1 iff the quotient has further 1 bits
Quotient(r, d) ==
    SubSeq([i \in 1..Limbs |->
               IF i < Limbs - QuotientLimbs THEN 0
               ELSE IF i = Limbs THEN (IF Rem(r, d, QuotientLimbs) # 0 THEN 1 ELSE 0)
               ELSE (Rem(r, d, i - (Limbs - QuotientLimbs)) * Base) \div d],
           1, Limbs)

\* the double nearest to v, ties to even
Round(v) ==
    CHOOSE rounded \in
        {IF drop <= 0 THEN x
         ELSE CHOOSE r \in
                {IF BitLength(sum) > Mantissa
                 THEN [limbs |-> ShiftRight(sum, 1), point |-> x.point - drop - 1]
                 ELSE [limbs |-> sum, point |-> x.point - drop] :
                    sum \in {IF /\ Bit(x.limbs, drop - 1) = 1
                                /\ \/ Bit(kept, 0) = 1
                                   \/ \E j \in 0..(drop - 2) : Bit(x.limbs, j) = 1
                             THEN Inc(kept) ELSE kept :
                                kept \in {ShiftRight(x.limbs, drop)}}} : TRUE :
            <<x, drop>> \in {<<y, BitLength(y.limbs) - Mantissa>> : y \in {v}}} : TRUE

\* n + q for an int 0 <= n < 2^31 and a float 0 <= q < 1: n in limbs, its
\* point moved to that of q, plus q; no digit of the sum carries, since q
\* has all its bits behind the point
FloatAdd(n, q) ==
    CHOOSE sum \in
        {Round([limbs |-> SubSeq([i \in 1..Limbs |-> whole[i] + x.limbs[i]],
                                 1, Limbs),
                point |-> x.point]) :
            <<x, whole>> \in
                {<<y, ShiftLeft([i \in 1..Limbs |->
                                   IF Limbs - i > 3 THEN 0
                                   ELSE (n \div (Base ^ (Limbs - i))) % Base],
                               y.point)>> : y \in {q}}} : TRUE

\* int(v) for v < 2^31: the digits before the point
Trunc(v) ==
    CHOOSE int \in
        {((n[Limbs - 3] * Base + n[Limbs - 2]) * Base + n[Limbs - 1]) * Base
         + n[Limbs] : n \in {ShiftRight(v.limbs, v.point)}} : TRUE

\* d.timestamp() of a datetime at or after the epoch:
\* seconds + microsecond / 1e6
timestamp(d) ==
    FloatAdd(d.sec, Round([limbs |-> Quotient(d.usec, 1000000),
                           point |-> (QuotientLimbs + 1) * LimbBits]))

\* int(d.timestamp())
IntSeconds(d) == Trunc(timestamp(d))

\* int(d.timestamp() * 1000)
IntMilliseconds(d) ==
    Trunc(CHOOSE product \in
              {Round([limbs |-> Mul(x.limbs, 1000), point |-> x.point]) :
                  x \in {timestamp(d)}} : TRUE)

\* the start_date a caller passes: 1970-01-01 00:00:00 and 00:00:01.001,
\* 1970-01-02 00:00:01.999999 and 1970-01-03 07:33:20:
\* the days whose every 5-minute mark has as many digits as the next midnight
\* (as of every day from 2001-09-10 on) are represented by 1970-01-03, whose
\* timestamp in milliseconds is within TLC's integers
StartDates ==
    {Timestamp(0, 0), Timestamp(1, 1000), Timestamp(86401, 999999),
     Timestamp(200000, 0)}

\* start_ts of get_history and of get_insight for each start_date
history_start_ts == [start_date \in StartDates |-> IntSeconds(start_date)]
insight_start_ts == [start_date \in StartDates |-> IntMilliseconds(start_date)]

\* d.replace(hour=0, minute=0, second=0, microsecond=0).timestamp()
Midnight(sec) == sec - (sec % OneDay)

\* the day of the month of the date that is z0 days after 1970-01-01
DayOfMonth(z0) ==
    LET z == z0 + 719468
        era == z \div 146097
        doe == z - era * 146097
        yoe == (doe - (doe \div 1460) + (doe \div 36524) - (doe \div 146096)) \div 365
        doy == doe - (365 * yoe + (yoe \div 4) - (yoe \div 100))
        mp == (5 * doy + 2) \div 153
    IN  doy - ((153 * mp + 2) \div 5) + 1

\* d.replace(day=1, hour=0, minute=0, second=0, microsecond=0).timestamp()
MonthStart(sec) ==
    LET days == sec \div OneDay IN (days - (DayOfMonth(days) - 1)) * OneDay

\* ------------------------------------------------------------ outcomes
Return(v) == [kind |-> "return", value |-> v]
Raise(e) == [kind |-> "raise", exc |-> e]
RaiseId(e, id) == [kind |-> "raise", exc |-> e, id |-> id]
RaiseStatus(e, status, message) ==
    [kind |-> "raise", exc |-> e, status_code |-> status, message |-> message]
RaiseCode(e, code, message) ==
    [kind |-> "raise", exc |-> e, code |-> code, message |-> message]

NullData == [tag |-> "null"]

\* ------------------------------------------------------------ envelopes
\* A response body: either text that is not JSON, or a JSON object of which
\* keys says which members are present.
NotJson == [json |-> FALSE]
Body(keys, code, message, success, data) ==
    [json |-> TRUE, keys |-> keys, code |-> code, message |-> message,
     success |-> success, data |-> data]
Response(status, body) == [status |-> status, body |-> body]

\* requests' Response.ok / aiohttp's ClientResponse.ok
ok(status) == status < 400

\* ------------------------------------------------------------ the mock
EnvelopeKeys == {"code", "message", "success"}

mock_response(data, code, message, success, http_status) ==
    Response(http_status,
             Body(IF data = NullData THEN EnvelopeKeys ELSE EnvelopeKeys \cup {"data"},
                  code, message, success, data))

\* _ok_response, had it answered success=true whatever it was given
ok_response_always_success(data, code, message, success) ==
    mock_response(data, code, message, TRUE, 200)

ok_response(data, code, message, success) ==
    mock_response(data, code, message, success, 200)

success_response(data) == ok_response(data, 0, "success", TRUE)

unauthorized_response == mock_response(NullData, 401, "Unauthorized", FALSE, 401)

\* web.HTTPNotImplemented(): status 501 with a text/plain body
not_implemented_response == Response(501, NotJson)

unauthorized_device_response ==
    mock_response(NullData, 20424, "unauthorized device", FALSE, 401)

\* dict.get(key) of the JSON request payload: None when the member is absent
PayloadGet(payload, key) ==
    IF key \in DOMAIN payload THEN payload[key] ELSE None

\* Python truthiness of a str-or-None request member
Truthy(v) == v # None /\ v # ""

is_authorized_request(request) == request.auth = MockAccessToken

handle_login(request) ==
    LET data == request.payload
        blank(k) == ~Truthy(PayloadGet(data, k))
        badType == PayloadGet(data, "clientType") # "BROWSER"
        message == IF blank("password") THEN "cannot be blank"
                   ELSE IF blank("email") THEN "cannot be blank"
                   ELSE IF badType THEN "Invalid terminal type"
                   ELSE "cannot be blank"
        fields == {k \in {"clientVersion", "email", "password"} : blank(k)}
                  \cup (IF badType THEN {"clientType"} ELSE {})
    IN  IF blank("clientVersion") \/ badType \/ blank("email") \/ blank("password")
        THEN Response(200, Body(EnvelopeKeys \cup {"data"}, 20000, message, FALSE,
                                [tag |-> "dict", keys |-> fields]))
        ELSE IF PayloadGet(data, "email") # LOGIN
                \/ PayloadGet(data, "password") # PASSWORD
        THEN Response(200, Body(EnvelopeKeys, 20414,
                                "Account or password or country error", FALSE,
                                NullData))
        ELSE Response(200, Body(EnvelopeKeys \cup {"data"}, 0, "success", TRUE,
                                [tag |-> "dict",
                                 keys |-> {"accessToken", "refreshToken"},
                                 accessToken |-> MockAccessToken,
                                 refreshToken |-> MockRefreshToken]))

handle_get_user_info(request) ==
    IF ~is_authorized_request(request) THEN unauthorized_response
    ELSE success_response([tag |-> "dict", keys |-> {"username", "email"},
                           username |-> LOGIN, email |-> LOGIN])

MockHome(id, name, type, n) ==
    [homeId |-> id, homeName |-> name, homeType |-> type, homeDeviceNumber |-> n]

handle_get_homes(request) ==
    IF ~is_authorized_request(request) THEN unauthorized_response
    ELSE success_response(
           [tag |-> "list",
            homes |-> << MockHome("1234567890123456789", "SHARED_DEVICES", IntV(0), 1),
                         MockHome(KnownHomeId, "My Home", IntV(1), 0) >>])

handle_get_devices(request) ==
    IF ~is_authorized_request(request) THEN unauthorized_response
    ELSE IF PayloadGet(request.payload, "homeId") # KnownHomeId
    THEN ok_response(NullData, 20450, "Home does not exist.", FALSE)
    ELSE success_response(
           [tag |-> "list",
            devices |-> << [deviceId |-> KnownDeviceId,
                            deviceAliasName |-> "My Device",
                            agentId |-> KnownHomeId] >>])

handle_get_all_devices(request) ==
    IF ~is_authorized_request(request) THEN unauthorized_response
    ELSE success_response(
           [tag |-> "list",
            devices |-> << [deviceId |-> KnownDeviceId,
                            deviceAliasName |-> "My Device",
                            agentId |-> ""] >>])

\* _generate_metrics_data(start_date, end_date) with the default interval and
\* format: a dict as the function from its keys to its values.  The loop
\* runs once for every multiple of the interval from start_date that is
\* before end_date; pass i stores, under the key str(start + i * interval),
\* the value i / 10 (kept in tenths).  start is in whole seconds.
MetricsCount(start, end_date) ==
    LET span == end_date.sec - start IN
    IF span < 0 \/ (span = 0 /\ end_date.usec = 0) THEN 0
    ELSE ((span + FiveMinutes - 1) \div FiveMinutes)
         + (IF span % FiveMinutes = 0 /\ end_date.usec > 0 THEN 1 ELSE 0)

\* generate_metrics_data, had it keyed its last entry by end_date itself
generate_metrics_data_until_now(start, end_date) ==
    [key \in {start + i * FiveMinutes : i \in 1..(MetricsCount(start, end_date) - 1)}
              \cup (IF MetricsCount(start, end_date) > 0 THEN {end_date.sec} ELSE {}) |->
        IF key = end_date.sec THEN MetricsCount(start, end_date)
        ELSE (key - start) \div FiveMinutes]

generate_metrics_data(start, end_date) ==
    [key \in {start + i * FiveMinutes : i \in 1..MetricsCount(start, end_date)} |->
        (key - start) \div FiveMinutes]

\* the greatest of a set of keys in the order of strs
Greatest(keys) ==
    CHOOSE m \in keys : \A k \in keys : ~StrLess(Digits(m), Digits(k))

\* max(d.keys()) of a dict whose keys are the strs str(start + i * interval),
\* i in lo..hi: the greatest key in the order of strs, which is total, so
\* that the greatest of the two halves' greatest keys is max's result
RECURSIVE MaxKeyIn(_, _, _)
MaxKeyIn(start, lo, hi) ==
    IF lo = hi THEN start + lo * FiveMinutes
    ELSE LET mid == (lo + hi) \div 2 IN
         CHOOSE m \in UNION {{Greatest(halves)} :
                    halves \in {{MaxKeyIn(start, lo, mid),
                                 MaxKeyIn(start, mid + 1, hi)}}} : TRUE

MaxKey(start, n) == MaxKeyIn(start, 1, n)

\* d[new] = d.pop(old)
Rename(d, old, new) ==
    [key \in (DOMAIN d \ {old}) \cup {new} |-> IF key = new THEN d[old] ELSE d[key]]

\* the six series of a power payload are one and the same dict: the names
\* of the series, and the dict each of them holds
PowerDps(fake_data) ==
    [series |-> {"solarPowerDps", "batteryPowerDps", "gridPowerDps",
                 "meterPowerDps", "homePowerDps", "epsPowerDps"},
     dps |-> fake_data]

\* now: what datetime.today() and datetime.now() read while the request is
\* handled
handle_get_today_device_data(request, now) ==
    IF ~is_authorized_request(request) THEN unauthorized_response
    ELSE IF PayloadGet(request.payload, "deviceId") # KnownDeviceId
    THEN unauthorized_device_response
    ELSE success_response(
           [tag |-> "dict", fixture |-> "today_device_data",
            power |-> PowerDps(generate_metrics_data(Midnight(now.sec), now))])

handle_get_realtime_home_data(request) ==
    IF ~is_authorized_request(request) THEN unauthorized_response
    ELSE IF PayloadGet(request.payload, "homeId") # KnownHomeId
    THEN ok_response(NullData, 20450, "Home does not exist.", FALSE)
    ELSE success_response([tag |-> "dict", fixture |-> "realtime_home_data"])

handle_get_realtime_device_data(request) ==
    IF ~is_authorized_request(request) THEN unauthorized_response
    ELSE IF PayloadGet(request.payload, "deviceId") # KnownDeviceId
    THEN unauthorized_device_response
    ELSE success_response([tag |-> "dict", fixture |-> "realtime_device_data"])

\* handle_get_history, had it verified periodType before deviceId
handle_get_history_period_first(request, now) ==
    IF ~is_authorized_request(request) THEN unauthorized_response
    ELSE IF request.payload.periodType \notin {0, 1, 2, 3, 4}
    THEN ok_response(NullData, 20404, "Parameter verification failed", FALSE)
    ELSE IF PayloadGet(request.payload, "deviceId") # KnownDeviceId
    THEN unauthorized_device_response
    ELSE IF request.payload.periodType # 4
    THEN not_implemented_response
    ELSE success_response(
           [tag |-> "dict", fixture |-> "history",
            homeEnergyDps |-> [key \in {MonthStart(now.sec)} |-> 9247]])

handle_get_history(request, now) ==
    IF ~is_authorized_request(request) THEN unauthorized_response
    ELSE IF PayloadGet(request.payload, "deviceId") # KnownDeviceId
    THEN unauthorized_device_response
    ELSE IF request.payload.periodType \notin {0, 1, 2, 3, 4}
    THEN ok_response(NullData, 20404, "Parameter verification failed", FALSE)
    ELSE IF request.payload.periodType # 4
    THEN not_implemented_response
    ELSE success_response(
           [tag |-> "dict", fixture |-> "history",
            homeEnergyDps |-> [key \in {MonthStart(now.sec)} |-> 9247]])

\* fake_data of handle_get_insight for the day that starts at start_date:
\* the metrics of the day, the latest timestamp renamed by (timestamp - 1 sec)
insight_fake_data_of(start_date) ==
    LET end_date == Timestamp(start_date + OneDay, 0)
        fake_data == generate_metrics_data(start_date, end_date)
        latest_timestamp == MaxKey(start_date, MetricsCount(start_date, end_date))
    IN  Rename(fake_data, latest_timestamp, latest_timestamp - 1)

\* the same, as a function of the days a get_insight of the model asks for
InsightDays == {Midnight(insight_start_ts[d] \div 1000) : d \in StartDates}
insight_fake_data == [start_date \in InsightDays |-> insight_fake_data_of(start_date)]

handle_get_insight(request) ==
    IF ~is_authorized_request(request) THEN unauthorized_response
    ELSE IF PayloadGet(request.payload, "deviceId") # KnownDeviceId
    THEN unauthorized_device_response
    ELSE IF request.payload.periodType \notin {0, 2, 4, 5}
    THEN ok_response(NullData, 20404, "Parameter verification failed", FALSE)
    ELSE IF request.payload.periodType # 0
    THEN not_implemented_response
    ELSE LET start_date == Midnight(request.payload.timestamp \div 1000) IN
         success_response(
           [tag |-> "dict", fixture |-> "insight",
            deviceRealtimeDto |-> PowerDps(insight_fake_data[start_date])])

\* {timestamp, status, error, message, path} with status 404: a JSON object
\* that has a message but neither code, success nor data
catch_all(request) ==
    Response(404, Body({"message"}, 404, "", FALSE, NullData))

\* the route table: verb and path after the server's own url
setup_routes(request, now) ==
    LET path == SubSeq(request.url, Len(MockUrl) + 1, Len(request.url))
        at(verb, route) == request.verb = verb /\ path = <<"/", route>>
    IN  CASE at("POST", "api/client/guide/login") -> handle_login(request)
          [] at("GET", "api/client/settings/user/info") -> handle_get_user_info(request)
          [] at("GET", "api/client/v2/home/family/query") -> handle_get_homes(request)
          [] at("GET", "api/client/v2/home/device/query") -> handle_get_devices(request)
          [] at("GET", "api/client/home/device/list") -> handle_get_all_devices(request)
          [] at("POST", "api/client/home/now/device/realtime") ->
                 handle_get_today_device_data(request, now)
          [] at("GET", "api/client/v2/home/device/runData") ->
                 handle_get_realtime_home_data(request)
          [] at("POST", "api/client/home/now/device/runData") ->
                 handle_get_realtime_device_data(request)
          [] at("POST", "api/client/home/history/home") -> handle_get_history(request, now)
          [] at("POST", "api/client/v2/device/three/device/insight") ->
                 handle_get_insight(request)
          [] OTHER -> catch_all(request)

\* The server a request reaches: the mock, whose clock reads now while it
\* handles the request, or a vendor server that answers with the response it
\* chose.
MockServer(now) == [now |-> now, mode |-> "mock"]
VendorServer(response) == [mode |-> "vendor", response |-> response]

IsMock(server) == server.mode = "mock"

Serve(server, request) ==
    IF IsMock(server) THEN setup_routes(request, server.now) ELSE server.response

\* ------------------------------------------------------- construction
NoUrl == [is_none |-> TRUE]
Url(s) == [is_none |-> FALSE, s |-> s]

datacenters ==
    [CN |-> <<"https://api-ecos-hu.weiheng-tech.com">>,
     EU |-> <<"https://api-ecos-eu.weiheng-tech.com">>,
     AU |-> <<"https://api-ecos-au.weiheng-tech.com">>]

NoSession == [surface |-> "none"]

Session(surface, url, access_token, refresh_token) ==
    [url |-> url, surface |-> surface,
     access_token |-> access_token, refresh_token |-> refresh_token]

\* Ecos_init, had it validated the datacenter before looking at url
Ecos_init_validates_datacenter(datacenter, url, access_token, refresh_token) ==
    IF datacenter # None /\ datacenter \notin DOMAIN datacenters
    THEN [outcome |-> Raise("ValueError"), self |-> NoSession]
    ELSE IF url.is_none
    THEN IF datacenter = None
         THEN [outcome |-> Raise("ValueError"), self |-> NoSession]
         ELSE [outcome |-> Return(NullData),
               self |-> Session("Ecos", datacenters[datacenter],
                                access_token, refresh_token)]
    ELSE [outcome |-> Return(NullData),
          self |-> Session("Ecos", rstrip(url.s), access_token, refresh_token)]

\* Ecos.__init__: the outcome and the object the caller gets (NoSession when
\* the constructor raises)
Ecos_init(datacenter, url, access_token, refresh_token) ==
    IF url.is_none
    THEN IF datacenter = None
         THEN [outcome |-> Raise("ValueError"), self |-> NoSession]
         ELSE IF datacenter \notin DOMAIN datacenters
         THEN [outcome |-> Raise("ValueError"), self |-> NoSession]
         ELSE [outcome |-> Return(NullData),
               self |-> Session("Ecos", datacenters[datacenter],
                                access_token, refresh_token)]
    ELSE [outcome |-> Return(NullData),
          self |-> Session("Ecos", rstrip(url.s), access_token, refresh_token)]

\* _BaseEcos.__init__ (ecactus/base.py), from spec.md 3, 4.1 and 6
AsyncEcos_init(datacenter, url, access_token, refresh_token) ==
    IF url.is_none
    THEN IF datacenter = None \/ datacenter \notin DOMAIN datacenters
         THEN [outcome |-> Raise("InitializationError"), self |-> NoSession]
         ELSE [outcome |-> Return(NullData),
               self |-> Session("AsyncEcos", datacenters[datacenter],
                                access_token, refresh_token)]
    ELSE [outcome |-> Return(NullData),
          self |-> Session("AsyncEcos", rstrip(url.s), access_token, refresh_token)]

\* ----------------------------------------------------------- transport
Request(verb, url, payload, auth) ==
    [verb |-> verb, url |-> url, payload |-> payload, auth |-> auth]

NoPayload == <<>>

\* What a transport call did: the requests it sent, the response it got and
\* how it ended.
Transported(request, response, outcome) ==
    [sent |-> <<request>>, response |-> response, outcome |-> outcome]

\* The envelope handling shared by Ecos._get and Ecos._post (client.py
\* 92-108 and 128-143 are the same statements).
Ecos_envelope(response) ==
    LET body == response.body IN
    IF ~body.json
    THEN \* the handler formats body["code"], but body was never bound
         Raise("UnboundLocalError")
    ELSE IF ~ok(response.status)
    THEN IF "message" \in body.keys
         THEN RaiseStatus("HTTPError", response.status, body.message)
         ELSE RaiseId("KeyError", "message")
    ELSE IF "success" \notin body.keys THEN RaiseId("KeyError", "success")
    ELSE IF ~body.success
    THEN IF "code" \notin body.keys THEN RaiseId("KeyError", "code")
         ELSE IF "message" \notin body.keys THEN RaiseId("KeyError", "message")
         ELSE RaiseCode("ValueError", body.code, body.message)
    ELSE IF "data" \notin body.keys THEN RaiseId("KeyError", "data")
    ELSE Return(body.data)

Ecos_get(self, api_path, payload, server) ==
    LET full_url == self.url \o <<"/">> \o lstrip(api_path)
        request == Request("GET", full_url, payload, self.access_token)
        response == Serve(server, request)
    IN  Transported(request, response, Ecos_envelope(response))

Ecos_post(self, api_path, payload, server) ==
    LET full_url == self.url \o <<"/">> \o lstrip(api_path)
        request == Request("POST", full_url, payload, self.access_token)
        response == Serve(server, request)
    IN  Transported(request, response, Ecos_envelope(response))

\* The envelope codec of _BaseEcos (ecactus/base.py), from spec.md 4.1-4.2:
\* decode failure > transport failure > business failure > success; only the
\* three generic kinds of _exceptions.py are raised.
AsyncEcos_envelope(response) ==
    LET body == response.body IN
    IF ~body.json THEN Raise("InvalidJsonError")
    ELSE IF ~ok(response.status)
    THEN [kind |-> "raise", exc |-> "HttpError", status_code |-> response.status]
    ELSE IF ~({"success", "code", "message"} \subseteq body.keys)
    THEN Raise("InvalidJsonError")
    ELSE IF ~body.success
    THEN RaiseCode("ApiResponseError", body.code, body.message)
    ELSE IF "data" \notin body.keys THEN Return(NullData)
    ELSE Return(body.data)

\* _BaseEcos._async_get and _async_post (ecactus/base.py), from spec.md 4.3
AsyncEcos_async_get(self, api_path, payload, server) ==
    LET full_url == self.url \o <<"/">> \o lstrip(api_path)
        request == Request("GET", full_url, payload, self.access_token)
        response == Serve(server, request)
    IN  Transported(request, response, AsyncEcos_envelope(response))

AsyncEcos_async_post(self, api_path, payload, server) ==
    LET full_url == self.url \o <<"/">> \o lstrip(api_path)
        request == Request("POST", full_url, payload, self.access_token)
        response == Serve(server, request)
    IN  Transported(request, response, AsyncEcos_envelope(response))

\* --------------------------------------------------------- py helpers
\* data[key] for the decoded data of an envelope
CanSubscript(data, key) ==
    data.tag = "dict" /\ "keys" \in DOMAIN data /\ key \in data.keys

SubscriptError(data, key) ==
    IF data.tag = "dict" THEN RaiseId("KeyError", key) ELSE Raise("TypeError")

\* int(x) of a JSON int or of a str holding a decimal literal
StrToInt(s) == CASE s = "0" -> 0 [] s = "1" -> 1
PyInt(v) == IF v.py = "int" THEN v.n ELSE StrToInt(v.s)


\* ---------------------------------------------------- what a call did
NoResponse == [none |-> TRUE]
NoOutcome == [kind |-> "none"]

\* sent: the requests of the call; transport: how the transport call ended;
\* outcome: how the operation ended; self: the session after the call
Done(tr, outcome, self) ==
    [sent |-> tr.sent, response |-> tr.response, transport |-> tr.outcome,
     outcome |-> outcome, self |-> self]

\* the surface has no such method
NoSuchMethod(self) ==
    [sent |-> <<>>, response |-> NoResponse, transport |-> NoOutcome,
     outcome |-> Raise("AttributeError"), self |-> self]

LoginPayload(t, email, password) ==
    [_t |-> t, clientType |-> "BROWSER", clientVersion |-> "1.0",
     email |-> email, password |-> password]

\* StoreTokens, had it kept the refresh token the session already held
StoreTokens_keeps_refresh(tr, self) ==
    LET data == tr.outcome.value IN
    IF ~CanSubscript(data, "accessToken")
    THEN Done(tr, SubscriptError(data, "accessToken"), self)
    ELSE Done(tr, Return(NullData), [self EXCEPT !.access_token = data.accessToken])

\* self.access_token = data["accessToken"]; self.refresh_token = data["refreshToken"]
StoreTokens(tr, self) ==
    LET data == tr.outcome.value IN
    IF ~CanSubscript(data, "accessToken")
    THEN Done(tr, SubscriptError(data, "accessToken"), self)
    ELSE LET self1 == [self EXCEPT !.access_token = data.accessToken] IN
         IF ~CanSubscript(data, "refreshToken")
         THEN Done(tr, SubscriptError(data, "refreshToken"), self1)
         ELSE Done(tr, Return(NullData),
                   [self1 EXCEPT !.refresh_token = data.refreshToken])

\* ------------------------------------------------- the blocking client
Ecos_login(self, email, password, t, server) ==
    LET tr == Ecos_post(self, ApiPath("api/client/guide/login"),
                        LoginPayload(t, email, password), server)
    IN  IF tr.outcome.kind = "raise" THEN Done(tr, tr.outcome, self)
        ELSE StoreTokens(tr, self)

Ecos_get_user_info(self, server) ==
    LET tr == Ecos_get(self, ApiPath("api/client/settings/user/info"),
                       NoPayload, server)
    IN  Done(tr, tr.outcome, self)

\* the loop of Ecos.get_homes over one home
Ecos_force_name(home) ==
    IF home.homeType = StrV("0")
    THEN [home EXCEPT !.homeName = "SHARED_DEVICES"]
    ELSE home

\* Ecos_get_homes, had it dropped the access token on a 401
Ecos_get_homes_drops_token(self, server) ==
    LET tr == Ecos_get(self, ApiPath("api/client/v2/home/family/query"),
                       NoPayload, server)
    IN  IF tr.outcome.kind = "raise"
        THEN Done(tr, tr.outcome,
                  IF tr.response.status = 401
                  THEN [self EXCEPT !.access_token = None]
                  ELSE self)
        ELSE Done(tr, tr.outcome, self)

Ecos_get_homes(self, server) ==
    LET tr == Ecos_get(self, ApiPath("api/client/v2/home/family/query"),
                       NoPayload, server)
    IN  IF tr.outcome.kind = "raise" THEN Done(tr, tr.outcome, self)
        ELSE LET home_list == tr.outcome.value IN
             IF home_list.tag # "list"
             THEN Done(tr, Raise("TypeError"), self)
             ELSE Done(tr,
                       Return([home_list EXCEPT !.homes =
                                 [i \in DOMAIN home_list.homes |->
                                    Ecos_force_name(home_list.homes[i])]]),
                       self)

Ecos_get_devices(self, home_id, server) ==
    LET tr == Ecos_get(self, ApiPath("api/client/v2/home/device/query"),
                       [homeId |-> home_id], server)
    IN  Done(tr, tr.outcome, self)

Ecos_get_all_devices(self, server) ==
    LET tr == Ecos_get(self, ApiPath("api/client/home/device/list"),
                       NoPayload, server)
    IN  Done(tr, tr.outcome, self)

Ecos_get_realtime_device_data(self, device_id, server) ==
    LET tr == Ecos_post(self, ApiPath("api/client/home/now/device/realtime"),
                        [deviceId |-> device_id], server)
    IN  Done(tr, tr.outcome, self)

Ecos_get_realtime_home_data(self, home_id, server) ==
    LET tr == Ecos_get(self, ApiPath("api/client/v2/home/device/runData"),
                       [homeId |-> home_id], server)
    IN  Done(tr, tr.outcome, self)

Ecos_get_history(self, device_id, start_date, period_type, server) ==
    LET start_ts == history_start_ts[start_date]
        tr == Ecos_post(self, ApiPath("api/client/home/history/home"),
                        [deviceId |-> device_id, timestamp |-> start_ts,
                         periodType |-> period_type], server)
    IN  Done(tr, tr.outcome, self)

Ecos_get_insight(self, device_id, start_date, period_type, server) ==
    LET start_ts == insight_start_ts[start_date]
        tr == Ecos_post(self, ApiPath("api/client/v2/device/three/device/insight"),
                        [deviceId |-> device_id, timestamp |-> start_ts,
                         periodType |-> period_type], server)
    IN  Done(tr, tr.outcome, self)

\* --------------------------------------------- the non-blocking client
IsApiResponseError(outcome) ==
    outcome.kind = "raise" /\ outcome.exc = "ApiResponseError"

\* The except clauses of async_client.py.  Each takes the ApiResponseError
\* the transport raised and gives how the operation ends; a clause whose
\* tests all fail ends without raising, so the statements after the try
\* run.
login_except(err) ==
    IF err.code = 20414 THEN Raise("AuthenticationError")
    ELSE \* falls through to data["accessToken"], and data was never bound
         Raise("UnboundLocalError")

home_except(err, home_id) ==
    IF err.code = 20450 THEN RaiseId("HomeDoesNotExistError", home_id)
    ELSE Return(NullData)

device_except(err, device_id) ==
    IF err.code = 20424 THEN RaiseId("UnauthorizedDeviceError", device_id)
    ELSE Return(NullData)

period_except(err, device_id) ==
    IF err.code = 20424 THEN RaiseId("UnauthorizedDeviceError", device_id)
    ELSE IF err.code = 20404 THEN Raise("ParameterVerificationFailedError")
    ELSE Return(NullData)

AsyncEcos_login(self, email, password, t, server) ==
    LET tr == AsyncEcos_async_post(self, ApiPath("api/client/guide/login"),
                                   LoginPayload(t, email, password), server)
    IN  IF IsApiResponseError(tr.outcome)
        THEN Done(tr, login_except(tr.outcome), self)
        ELSE IF tr.outcome.kind = "raise" THEN Done(tr, tr.outcome, self)
        ELSE StoreTokens(tr, self)

AsyncEcos_get_user_info(self, server) ==
    LET tr == AsyncEcos_async_get(self, ApiPath("api/client/settings/user/info"),
                                  NoPayload, server)
    IN  Done(tr, tr.outcome, self)

\* the loop of AsyncEcos.get_homes over one home
\* AsyncEcos_force_name, had it forced the name of every home
AsyncEcos_force_name_of_every_home(home) ==
    [home EXCEPT !.homeName = "SHARED_DEVICES"]

AsyncEcos_force_name(home) ==
    IF PyInt(home.homeType) = 0
    THEN [home EXCEPT !.homeName = "SHARED_DEVICES"]
    ELSE home

AsyncEcos_get_homes(self, server) ==
    LET tr == AsyncEcos_async_get(self, ApiPath("api/client/v2/home/family/query"),
                                  NoPayload, server)
    IN  IF tr.outcome.kind = "raise" THEN Done(tr, tr.outcome, self)
        ELSE LET home_list == tr.outcome.value IN
             IF home_list.tag # "list"
             THEN Done(tr, Raise("TypeError"), self)
             ELSE Done(tr,
                       Return([home_list EXCEPT !.homes =
                                 [i \in DOMAIN home_list.homes |->
                                    AsyncEcos_force_name(home_list.homes[i])]]),
                       self)

AsyncEcos_get_devices(self, home_id, server) ==
    LET tr == AsyncEcos_async_get(self, ApiPath("api/client/v2/home/device/query"),
                                  [homeId |-> home_id], server)
    IN  IF IsApiResponseError(tr.outcome)
        THEN Done(tr, home_except(tr.outcome, home_id), self)
        ELSE Done(tr, tr.outcome, self)

AsyncEcos_get_all_devices(self, server) ==
    LET tr == AsyncEcos_async_get(self, ApiPath("api/client/home/device/list"),
                                  NoPayload, server)
    IN  Done(tr, tr.outcome, self)

AsyncEcos_get_today_device_data(self, device_id, server) ==
    LET tr == AsyncEcos_async_post(self,
                                   ApiPath("api/client/home/now/device/realtime"),
                                   [deviceId |-> device_id], server)
    IN  IF IsApiResponseError(tr.outcome)
        THEN Done(tr, device_except(tr.outcome, device_id), self)
        ELSE Done(tr, tr.outcome, self)

AsyncEcos_get_realtime_home_data(self, home_id, server) ==
    LET tr == AsyncEcos_async_get(self, ApiPath("api/client/v2/home/device/runData"),
                                  [homeId |-> home_id], server)
    IN  IF IsApiResponseError(tr.outcome)
        THEN Done(tr, home_except(tr.outcome, home_id), self)
        ELSE Done(tr, tr.outcome, self)

AsyncEcos_get_realtime_device_data(self, device_id, server) ==
    LET tr == AsyncEcos_async_post(self,
                                   ApiPath("api/client/home/now/device/runData"),
                                   [deviceId |-> device_id], server)
    IN  IF IsApiResponseError(tr.outcome)
        THEN Done(tr, device_except(tr.outcome, device_id), self)
        ELSE Done(tr, tr.outcome, self)

AsyncEcos_get_history(self, device_id, start_date, period_type, server) ==
    LET start_ts == history_start_ts[start_date]
        tr == AsyncEcos_async_post(self, ApiPath("api/client/home/history/home"),
                                   [deviceId |-> device_id, timestamp |-> start_ts,
                                    periodType |-> period_type], server)
    IN  IF IsApiResponseError(tr.outcome)
        THEN Done(tr, period_except(tr.outcome, device_id), self)
        ELSE Done(tr, tr.outcome, self)

AsyncEcos_get_insight(self, device_id, start_date, period_type, server) ==
    LET start_ts == insight_start_ts[start_date]
        tr == AsyncEcos_async_post(self,
                                   ApiPath("api/client/v2/device/three/device/insight"),
                                   [deviceId |-> device_id, timestamp |-> start_ts,
                                    periodType |-> period_type], server)
    IN  IF IsApiResponseError(tr.outcome)
        THEN Done(tr, period_except(tr.outcome, device_id), self)
        ELSE Done(tr, tr.outcome, self)

\* models.Home (model.py): the type is validated as an int and the
\* after-validator forces the name of the shared-devices home
Home(home) ==
    LET type == PyInt(home.homeType) IN
    [id |-> home.homeId,
     name |-> IF type = 0 THEN "SHARED_DEVICES" ELSE home.homeName,
     type |-> type,
     device_number |-> home.homeDeviceNumber]

\* -------------------------------------------------------------- inputs
Surfaces == {"Ecos", "AsyncEcos"}
Datacenters == {None, "EU", "XX"}

RECURSIVE Slashes(_)
Slashes(n) == IF n = 0 THEN <<>> ELSE <<"/">> \o Slashes(n - 1)

Urls == {NoUrl} \cup {Url(MockUrl \o Slashes(n)) : n \in 0..MaxSlashes}
AccessTokens == {None, "wrong_token", MockAccessToken}
RefreshTokens == {None, "old_refresh_token"}
Emails == {LOGIN, "wrong_login", ""}
Passwords == {PASSWORD, "wrong_password"}
Times == {1700000000}
HomeIds == {"0", KnownHomeId}
DeviceIds == {"0", KnownDeviceId}
PeriodTypes == 0..MaxPeriodType

\* what the mock's clock may read: 00:00:00 (midnight itself), 00:07:30,
\* 00:08:20.25 and 00:12:30 of 2023-11-14
FirstClock == Timestamp(1699920450, 0)
Clocks ==
    {Timestamp(1699920000, 0), FirstClock, Timestamp(1699920500, 250000),
     Timestamp(1699920750, 0)}

\* the operations whose request reaches a handler whose answer changes with
\* these readings (handle_get_history reads the month, which is the same)
ClockOps == {"get_today_device_data", "get_realtime_device_data"}

\* what a vendor server may answer
FailCodes == {20000, 20404, 20414, 20424, 20450}

HomeTypes == {IntV(0), IntV(1), StrV("0")}
HomeNames == {"SHARED_DEVICES", "My Home"}
VendorHomes ==
    {MockHome(KnownHomeId, name, type, 1) : name \in HomeNames, type \in HomeTypes}

RECURSIVE SeqsUpTo(_, _)
SeqsUpTo(S, n) ==
    IF n = 0 THEN {<<>>}
    ELSE LET shorter == SeqsUpTo(S, n - 1) IN
         shorter \cup {Append(q, x) : q \in shorter, x \in S}

VendorData(op) ==
    CASE op = "login" ->
           {[tag |-> "dict", keys |-> {"accessToken", "refreshToken"},
             accessToken |-> MockAccessToken, refreshToken |-> MockRefreshToken],
            [tag |-> "dict", keys |-> {"accessToken"},
             accessToken |-> MockAccessToken, refreshToken |-> None]}
      [] op = "get_homes" ->
           {[tag |-> "list", homes |-> h] : h \in SeqsUpTo(VendorHomes, MaxHomes)}
      [] OTHER -> {[tag |-> "dict", fixture |-> op]}

SuccessBody(d) == Body(EnvelopeKeys \cup {"data"}, 0, "success", TRUE, d)
FailBody(c) == Body(EnvelopeKeys, c, "failed", FALSE, NullData)

\* bodies sent with status 200
VendorBodies(op) ==
    {NotJson}
    \cup {SuccessBody(d) : d \in VendorData(op)}
    \cup {Body(EnvelopeKeys, 0, "success", TRUE, NullData),
          Body({"message"}, 0, "", FALSE, NullData)}
    \cup {FailBody(c) : c \in FailCodes}

\* bodies sent with another status
ErrorStatuses == {304, 401, 500}
ErrorBodies(op) ==
    {NotJson, FailBody(20424), SuccessBody(NullData),
     Body({"code", "success"}, 500, "", FALSE, NullData)}

VendorResponses(op) ==
    {Response(200, b) : b \in VendorBodies(op)}
    \cup {Response(st, b) : st \in ErrorStatuses, b \in ErrorBodies(op)}

\* The mock answers at its own url; a vendor server answers anywhere, and
\* what it answers does not depend on the arguments of the call.  Every
\* reading of the clock is explored for the handlers that read it.
Servers(self, op) ==
    (IF self.url = MockUrl
     THEN {MockServer(now) : now \in IF op \in ClockOps THEN Clocks ELSE {FirstClock}}
     ELSE {})
    \cup {VendorServer(r) : r \in VendorResponses(op)}

\* the calls explored: every argument against the mock, and the arguments
\* first against each vendor answer
Explored(server, a, first) == server.mode = "vendor" => a = first

\* ------------------------------------------------------------ dispatch
\* the methods each class defines
Methods(surface) ==
    IF surface = "Ecos"
    THEN {"login", "get_user_info", "get_homes", "get_devices", "get_all_devices",
          "get_realtime_device_data", "get_realtime_home_data", "get_history",
          "get_insight"}
    ELSE {"login", "get_user_info", "get_homes", "get_devices", "get_all_devices",
          "get_today_device_data", "get_realtime_home_data",
          "get_realtime_device_data", "get_history", "get_insight"}

Ecos_call(op, self, a, server) ==
    CASE op = "login" -> Ecos_login(self, a.email, a.password, a.t, server)
      [] op = "get_user_info" -> Ecos_get_user_info(self, server)
      [] op = "get_homes" -> Ecos_get_homes(self, server)
      [] op = "get_devices" -> Ecos_get_devices(self, a.home_id, server)
      [] op = "get_all_devices" -> Ecos_get_all_devices(self, server)
      [] op = "get_realtime_device_data" ->
             Ecos_get_realtime_device_data(self, a.device_id, server)
      [] op = "get_realtime_home_data" ->
             Ecos_get_realtime_home_data(self, a.home_id, server)
      [] op = "get_history" ->
             Ecos_get_history(self, a.device_id, a.start_date, a.period_type, server)
      [] op = "get_insight" ->
             Ecos_get_insight(self, a.device_id, a.start_date, a.period_type, server)

AsyncEcos_call(op, self, a, server) ==
    CASE op = "login" -> AsyncEcos_login(self, a.email, a.password, a.t, server)
      [] op = "get_user_info" -> AsyncEcos_get_user_info(self, server)
      [] op = "get_homes" -> AsyncEcos_get_homes(self, server)
      [] op = "get_devices" -> AsyncEcos_get_devices(self, a.home_id, server)
      [] op = "get_all_devices" -> AsyncEcos_get_all_devices(self, server)
      [] op = "get_today_device_data" ->
             AsyncEcos_get_today_device_data(self, a.device_id, server)
      [] op = "get_realtime_home_data" ->
             AsyncEcos_get_realtime_home_data(self, a.home_id, server)
      [] op = "get_realtime_device_data" ->
             AsyncEcos_get_realtime_device_data(self, a.device_id, server)
      [] op = "get_history" ->
             AsyncEcos_get_history(self, a.device_id, a.start_date, a.period_type,
                                   server)
      [] op = "get_insight" ->
             AsyncEcos_get_insight(self, a.device_id, a.start_date, a.period_type,
                                   server)

\* self.op(args) on an object of either class
Invoke(op, self, a, server) ==
    IF op \notin Methods(self.surface) THEN NoSuchMethod(self)
    ELSE IF self.surface = "Ecos" THEN Ecos_call(op, self, a, server)
    ELSE AsyncEcos_call(op, self, a, server)

\* cls(datacenter, url, access_token, refresh_token)
New(surface, a) ==
    IF surface = "Ecos"
    THEN Ecos_init(a.datacenter, a.url, a.access_token, a.refresh_token)
    ELSE AsyncEcos_init(a.datacenter, a.url, a.access_token, a.refresh_token)

\* --------------------------------------------------------------- state
\* session: the client object the caller holds (NoSession: none)
\* last:    the latest call: the operation and its arguments, the session
\*          before it, the server that answered and what the call did
\* again:   when the latest call repeats the call before it (same operation,
\*          same arguments, both to the mock), what that first call sent
\*          and how it ended
NoCall == [op |-> "none"]
NoServer == [mode |-> "none"]
NoRepeat == [repeat |-> FALSE]

\* d1 < d2 for two datetimes
Before(d1, d2) == d1.sec < d2.sec \/ (d1.sec = d2.sec /\ d1.usec < d2.usec)

\* the latest call was made to the mock, and this one is the same call to
\* the mock, handled no earlier; the mock keeps no state besides its fixture
Repeats(op, a, server) ==
    /\ last.op = op
    /\ last.args = a
    /\ IsMock(last.server)
    /\ IsMock(server)
    /\ ~Before(server.now, last.server.now)

Init ==
    /\ session = NoSession
    /\ last = NoCall

Construct ==
    /\ session = NoSession
    /\ \E surface \in Surfaces, datacenter \in Datacenters, url \in Urls,
          access_token \in AccessTokens, refresh_token \in RefreshTokens :
        LET a == [datacenter |-> datacenter, url |-> url,
                  access_token |-> access_token, refresh_token |-> refresh_token]
            made == New(surface, a)
        IN  /\ session' = made.self
            /\ last' = [response |-> NoResponse, server |-> NoServer,
                        surface |-> surface, outcome |-> made.outcome,
                        sent |-> <<>>, transport |-> NoOutcome,
                        op |-> "__init__", args |-> a, pre |-> session,
                        again |-> NoRepeat]

\* one call of a method the session's class defines; result is what the
\* method of that class does from the session
Call(op, a, server, result) ==
    /\ op \in Methods(session.surface)
    /\ \E done \in {result} :
        /\ session' = done.self
        /\ last' = [response |-> done.response, server |-> server,
                    surface |-> session.surface, outcome |-> done.outcome,
                    sent |-> done.sent, transport |-> done.transport,
                    op |-> op, args |-> a, pre |-> session,
                    again |-> IF Repeats(op, a, server)
                              THEN [server |-> last.server,
                                    outcome |-> last.outcome,
                                    sent |-> last.sent, repeat |-> TRUE]
                              ELSE NoRepeat]

Login ==
    /\ session # NoSession
    /\ \E email \in Emails, password \in Passwords, t \in Times,
          server \in Servers(session, "login") :
        LET a == [email |-> email, password |-> password, t |-> t] IN
        /\ Explored(server, a, [email |-> LOGIN, password |-> PASSWORD, t |-> t])
        /\ Call("login", a, server,
                IF session.surface = "Ecos"
                THEN Ecos_login(session, email, password, t, server)
                ELSE AsyncEcos_login(session, email, password, t, server))

GetUserInfo ==
    /\ session # NoSession
    /\ \E server \in Servers(session, "get_user_info") :
        Call("get_user_info", <<>>, server,
             IF session.surface = "Ecos"
             THEN Ecos_get_user_info(session, server)
             ELSE AsyncEcos_get_user_info(session, server))

GetHomes ==
    /\ session # NoSession
    /\ \E server \in Servers(session, "get_homes") :
        Call("get_homes", <<>>, server,
             IF session.surface = "Ecos"
             THEN Ecos_get_homes(session, server)
             ELSE AsyncEcos_get_homes(session, server))

GetDevices ==
    /\ session # NoSession
    /\ \E home_id \in HomeIds, server \in Servers(session, "get_devices") :
        /\ Explored(server, home_id, KnownHomeId)
        /\ Call("get_devices", [home_id |-> home_id], server,
                IF session.surface = "Ecos"
                THEN Ecos_get_devices(session, home_id, server)
                ELSE AsyncEcos_get_devices(session, home_id, server))

GetAllDevices ==
    /\ session # NoSession
    /\ \E server \in Servers(session, "get_all_devices") :
        Call("get_all_devices", <<>>, server,
             IF session.surface = "Ecos"
             THEN Ecos_get_all_devices(session, server)
             ELSE AsyncEcos_get_all_devices(session, server))

\* only AsyncEcos defines get_today_device_data
GetTodayDeviceData ==
    /\ session # NoSession
    /\ \E device_id \in DeviceIds,
          server \in Servers(session, "get_today_device_data") :
        /\ Explored(server, device_id, KnownDeviceId)
        /\ Call("get_today_device_data", [device_id |-> device_id], server,
                AsyncEcos_get_today_device_data(session, device_id, server))

GetRealtimeHomeData ==
    /\ session # NoSession
    /\ \E home_id \in HomeIds, server \in Servers(session, "get_realtime_home_data") :
        /\ Explored(server, home_id, KnownHomeId)
        /\ Call("get_realtime_home_data", [home_id |-> home_id], server,
                IF session.surface = "Ecos"
                THEN Ecos_get_realtime_home_data(session, home_id, server)
                ELSE AsyncEcos_get_realtime_home_data(session, home_id, server))

GetRealtimeDeviceData ==
    /\ session # NoSession
    /\ \E device_id \in DeviceIds,
          server \in Servers(session, "get_realtime_device_data") :
        /\ Explored(server, device_id, KnownDeviceId)
        /\ Call("get_realtime_device_data", [device_id |-> device_id], server,
                IF session.surface = "Ecos"
                THEN Ecos_get_realtime_device_data(session, device_id, server)
                ELSE AsyncEcos_get_realtime_device_data(session, device_id, server))

GetHistory ==
    /\ session # NoSession
    /\ \E device_id \in DeviceIds, start_date \in StartDates,
          period_type \in PeriodTypes, server \in Servers(session, "get_history") :
        LET a == [device_id |-> device_id, start_date |-> start_date,
                  period_type |-> period_type]
        IN  /\ Explored(server, a, [device_id |-> KnownDeviceId,
                                    start_date |-> Timestamp(0, 0),
                                    period_type |-> 0])
            /\ Call("get_history", a, server,
                    IF session.surface = "Ecos"
                    THEN Ecos_get_history(session, device_id, start_date,
                                          period_type, server)
                    ELSE AsyncEcos_get_history(session, device_id, start_date,
                                               period_type, server))

GetInsight ==
    /\ session # NoSession
    /\ \E device_id \in DeviceIds, start_date \in StartDates,
          period_type \in PeriodTypes, server \in Servers(session, "get_insight") :
        LET a == [device_id |-> device_id, start_date |-> start_date,
                  period_type |-> period_type]
        IN  /\ Explored(server, a, [device_id |-> KnownDeviceId,
                                    start_date |-> Timestamp(0, 0),
                                    period_type |-> 0])
            /\ Call("get_insight", a, server,
                    IF session.surface = "Ecos"
                    THEN Ecos_get_insight(session, device_id, start_date,
                                          period_type, server)
                    ELSE AsyncEcos_get_insight(session, device_id, start_date,
                                               period_type, server))

Next ==
    \/ Construct
    \/ Login
    \/ GetUserInfo
    \/ GetHomes
    \/ GetDevices
    \/ GetAllDevices
    \/ GetTodayDeviceData
    \/ GetRealtimeHomeData
    \/ GetRealtimeDeviceData
    \/ GetHistory
    \/ GetInsight

Spec == Init /\ [][Next]_vars

IsCall == last.op \notin {"none", "__init__"}

\* ---------------------------------------------------------------- C1
\* the vendor codes each operation translates (spec.md 4.4)
TranslationTable(op) ==
    CASE op = "login" -> {20414}
      [] op \in {"get_devices", "get_realtime_home_data"} -> {20450}
      [] op \in {"get_today_device_data", "get_realtime_device_data"} -> {20424}
      [] op \in {"get_history", "get_insight"} -> {20424, 20404}
      [] OTHER -> {}

UntranslatedCode ==
    /\ IsCall
    /\ TranslationTable(last.op) # {}
    /\ IsApiResponseError(last.transport)
    /\ last.transport.code \notin TranslationTable(last.op)

\* C1: when the transport raises ApiResponseError with a code the operation
\* does not translate, the operation raises that same ApiResponseError, code
\* and message unchanged; it neither returns nor raises another kind.
C1_PassThrough == UntranslatedCode => last.outcome = last.transport

\* ---------------------------------------------------------------- C2
Is2xx(status) == status >= 200 /\ status <= 299

\* the outcome the priority chain assigns to a response; kinds are the
\* classes of _exceptions.py
ChainOutcome(response) ==
    LET body == response.body IN
    IF ~body.json THEN [kind |-> "raise", class |-> "decode"]
    ELSE IF ~Is2xx(response.status)
    THEN [kind |-> "raise", class |-> "transport", status_code |-> response.status]
    ELSE IF "success" \in body.keys /\ ~body.success
    THEN [kind |-> "raise", class |-> "business",
          code |-> body.code, message |-> body.message]
    ELSE [kind |-> "return",
          value |-> IF "data" \in body.keys THEN body.data ELSE NullData]

\* how a transport call ended, in the terms of the chain
Observed(outcome) ==
    IF outcome.kind = "return" THEN outcome
    ELSE IF outcome.exc = "InvalidJsonError" THEN [kind |-> "raise", class |-> "decode"]
    ELSE IF outcome.exc \in {"HttpError", "HTTPError"}
    THEN [kind |-> "raise", class |-> "transport",
          status_code |-> outcome.status_code]
    ELSE IF outcome.exc = "ApiResponseError"
    THEN [kind |-> "raise", class |-> "business",
          code |-> outcome.code, message |-> outcome.message]
    ELSE [kind |-> "raise", class |-> outcome.exc]

\* a well-formed envelope or a body that is not JSON
Enveloped(response) ==
    response.body.json => {"code", "message", "success"} \subseteq response.body.keys

\* C2: every completed response of Ecos._get/_post has exactly the outcome of
\* the chain: decode failure, else transport failure with the status for a
\* non-2xx status, else ApiResponseError(code, message) for success=false,
\* else the decoded data.
C2_PriorityChain ==
    (IsCall /\ last.surface = "Ecos" /\ last.sent # <<>> /\ Enveloped(last.response))
        => Observed(last.transport) = ChainOutcome(last.response)

\* ---------------------------------------------------------------- C3
DeviceOps == {"get_today_device_data", "get_realtime_device_data",
              "get_history", "get_insight"}

UnknownDeviceCall ==
    /\ IsCall
    /\ last.op \in DeviceOps
    /\ IsMock(last.server)
    /\ last.pre.access_token = MockAccessToken
    /\ last.args.device_id # KnownDeviceId

\* C3: with the issued token, a device operation called with a device id the
\* mock does not know raises UnauthorizedDeviceError carrying that id.
C3_UnauthorizedDevice ==
    UnknownDeviceCall =>
        last.outcome = RaiseId("UnauthorizedDeviceError", last.args.device_id)

\* ---------------------------------------------------------------- C4
\* get_user is get_user_info in client.py and async_client.py
ProtectedOps ==
    {"get_user_info", "get_homes", "get_devices", "get_all_devices",
     "get_today_device_data", "get_realtime_home_data",
     "get_realtime_device_data", "get_history", "get_insight"}

WrongTokenCall ==
    /\ IsCall
    /\ last.op \in ProtectedOps
    /\ IsMock(last.server)
    /\ last.pre.access_token # MockAccessToken

\* C4: a protected operation called with a token other than the issued one
\* raises UnauthorizedError, whatever its other arguments.
C4_Unauthorized == WrongTokenCall => last.outcome = Raise("UnauthorizedError")

\* ---------------------------------------------------------------- C5
RejectedLogin ==
    /\ IsCall
    /\ last.op = "login"
    /\ last.response.status = 200
    /\ last.response.body.json
    /\ EnvelopeKeys \subseteq last.response.body.keys
    /\ ~last.response.body.success
    /\ last.response.body.code = 20414

\* C5: a login answered with success=false and code 20414 raises
\* AuthenticationError, not the generic error.
C5_AuthenticationError == RejectedLogin => last.outcome = Raise("AuthenticationError")

\* ---------------------------------------------------------------- C6
ValidLogin ==
    /\ IsCall
    /\ last.op = "login"
    /\ IsMock(last.server)
    /\ last.args.email = LOGIN
    /\ last.args.password = PASSWORD

\* C6: after a login with the mock's credentials the call has returned and
\* the session holds exactly the two tokens the mock issued, whatever it
\* held before.
C6_LoginStoresTokens ==
    ValidLogin =>
        /\ last.outcome = Return(NullData)
        /\ session.access_token = MockAccessToken
        /\ session.refresh_token = MockRefreshToken

\* a valid login of a session that held another pair
C6_Witness ==
    /\ ValidLogin
    /\ last.pre.access_token = "wrong_token"
    /\ last.pre.refresh_token = "old_refresh_token"

OtherSurface(surface) == IF surface = "Ecos" THEN "AsyncEcos" ELSE "Ecos"

\* the same call on the other class, from the same session state
Mirrored ==
    Invoke(last.op, [last.pre EXCEPT !.surface = OtherSurface(last.surface)],
           last.args, last.server)

\* C8: Ecos and AsyncEcos define the same operations, and the same call sends
\* the same requests, ends the same way and leaves the same token pair.
C8_SameBehaviour ==
    IsCall =>
        /\ last.op \in Methods("Ecos") \cap Methods("AsyncEcos")
        /\ Mirrored.sent = last.sent
        /\ Mirrored.outcome = last.outcome
        /\ Mirrored.self.access_token = session.access_token
        /\ Mirrored.self.refresh_token = session.refresh_token

\* ---------------------------------------------------------------- C9
\* C9: every home get_homes returns whose homeType is 0 is named
\* SHARED_DEVICES, and so is the Home built from it.
C9_SharedDevicesName ==
    (IsCall /\ last.op = "get_homes" /\ last.outcome.kind = "return"
        /\ last.outcome.value.tag = "list") =>
        \A i \in DOMAIN last.outcome.value.homes :
            LET home == last.outcome.value.homes[i] IN
            home.homeType = IntV(0) =>
                /\ home.homeName = "SHARED_DEVICES"
                /\ Home(home).name = "SHARED_DEVICES"

\* --------------------------------------------------------------- C10
Unresolvable ==
    /\ last.op = "__init__"
    /\ last.args.url = NoUrl
    /\ last.args.datacenter \notin {"CN", "EU", "AU"}

\* C10: constructing with no url and no recognised datacenter fails with
\* InitializationError and leaves the caller without a session.
C10_InitializationError ==
    Unresolvable =>
        /\ last.outcome = Raise("InitializationError")
        /\ session = NoSession

\* --------------------------------------------------------------- C11
ExplicitUrl ==
    /\ last.op = "__init__"
    /\ last.args.url # NoUrl

RegionOnly ==
    /\ last.op = "__init__"
    /\ last.args.url = NoUrl
    /\ last.args.datacenter \in {"CN", "EU", "AU"}

\* u is s without the "/" at its end
StrippedOf(u, s) ==
    /\ Len(u) <= Len(s)
    /\ SubSeq(s, 1, Len(u)) = u
    /\ \A i \in (Len(u) + 1)..Len(s) : s[i] = "/"
    /\ (u = <<>> \/ u[Len(u)] # "/")

Constructed ==
    /\ last.outcome = Return(NullData)
    /\ session # NoSession
    /\ session.access_token = last.args.access_token
    /\ session.refresh_token = last.args.refresh_token

\* C11: with an explicit url, construction succeeds whatever the datacenter
\* (absent, recognised or not) and the base url is the url without its
\* trailing slashes; with a recognised datacenter alone, the base url is the
\* url of that region; both tokens are stored as supplied.
C11_Construction ==
    /\ ExplicitUrl => (Constructed /\ StrippedOf(session.url, last.args.url.s))
    /\ RegionOnly => (Constructed /\ session.url = datacenters[last.args.datacenter])

\* a url that ends with "/" given with an unrecognised datacenter and tokens
C11_Witness ==
    /\ ExplicitUrl
    /\ last.surface = "Ecos"
    /\ last.args.datacenter = "XX"
    /\ last.args.url.s # session.url
    /\ last.args.access_token = "wrong_token"
    /\ last.args.refresh_token = "old_refresh_token"

\* --------------------------------------------------------------- C12
\* a call to the mock by a session that holds the issued token
ValidTokenCall ==
    /\ IsCall
    /\ IsMock(last.server)
    /\ last.pre.access_token = MockAccessToken

UnknownHomeCall ==
    /\ ValidTokenCall
    /\ last.op \in {"get_devices", "get_realtime_home_data"}
    /\ last.args.home_id # KnownHomeId

KnownHomeDevices ==
    /\ ValidTokenCall
    /\ last.op = "get_devices"
    /\ last.args.home_id = KnownHomeId

\* C12: with the issued token, get_devices and get_realtime_home_data called
\* with a home id the mock does not know raise HomeDoesNotExistError carrying
\* that id, and get_devices with the known id returns a non-empty list whose
\* first device has the alias "My Device".
C12_HomeDoesNotExist ==
    /\ UnknownHomeCall =>
           last.outcome = RaiseId("HomeDoesNotExistError", last.args.home_id)
    /\ KnownHomeDevices =>
           /\ last.outcome.kind = "return"
           /\ last.outcome.value.tag = "list"
           /\ Len(last.outcome.value.devices) >= 1
           /\ last.outcome.value.devices[1].deviceAliasName = "My Device"

\* --------------------------------------------------------------- C13
KnownDeviceCall(op) ==
    /\ ValidTokenCall
    /\ last.op = op
    /\ last.args.device_id = KnownDeviceId

\* C13: with the issued token and the known device, get_history with a
\* period_type outside 0..4 raises ParameterVerificationFailedError, and with
\* period_type 4 it returns, whatever the start_date, a payload whose energy
\* series has exactly one entry.
C13_HistoryPeriods ==
    KnownDeviceCall("get_history") =>
        /\ last.args.period_type \notin {0, 1, 2, 3, 4} =>
               last.outcome = Raise("ParameterVerificationFailedError")
        /\ last.args.period_type = 4 =>
               /\ last.outcome.kind = "return"
               /\ last.outcome.value.tag = "dict"
               /\ Cardinality(DOMAIN last.outcome.value.homeEnergyDps) = 1

\* --------------------------------------------------------------- C14
\* the period types each operation accepts (spec.md 4.4, mock_server.py)
AcceptedPeriods(op) == IF op = "get_history" THEN {0, 1, 2, 3, 4} ELSE {0, 2, 4, 5}

PeriodCall ==
    KnownDeviceCall("get_history") \/ KnownDeviceCall("get_insight")

\* C14: for get_history and get_insight with the issued token and the known
\* device, a period_type outside the accepted range raises
\* ParameterVerificationFailedError, and an accepted one the server answers
\* as not implemented ends as a transport failure carrying the status of that
\* answer: never ParameterVerificationFailedError, never a return.
C14_NotConflated ==
    PeriodCall =>
        /\ last.args.period_type \notin AcceptedPeriods(last.op) =>
               last.outcome = Raise("ParameterVerificationFailedError")
        /\ (/\ last.args.period_type \in AcceptedPeriods(last.op)
            /\ last.response = not_implemented_response) =>
               Observed(last.outcome) =
                   [kind |-> "raise", class |-> "transport",
                    status_code |-> last.response.status]

\* --------------------------------------------------------------- C15
\* the keys of series that lie in the interval (from, to]
KeysWithin(series, from, to) == {key \in DOMAIN series : from < key /\ key <= to}

\* C15: with the issued token and the known device, get_insight with
\* period_type 0 returns, whatever the start_date, a payload whose realtime
\* power series each hold more than 1 entry: one entry for each 5-minute
\* interval of the day that contains start_date, every key a timestamp of
\* that day.
C15_InsightSeries ==
    (KnownDeviceCall("get_insight") /\ last.args.period_type = 0) =>
        /\ last.outcome.kind = "return"
        /\ last.outcome.value.tag = "dict"
        /\ LET power == last.outcome.value.deviceRealtimeDto
               day == Midnight(last.args.start_date.sec)
           IN  /\ power.series # {}
               /\ Cardinality(DOMAIN power.dps) > 1
               /\ \A i \in 0..((OneDay \div FiveMinutes) - 1) :
                      Cardinality(KeysWithin(power.dps, day + i * FiveMinutes,
                                             day + (i + 1) * FiveMinutes)) = 1
               /\ \A key \in DOMAIN power.dps : day <= key /\ key < day + OneDay

\* --------------------------------------------------------------- C16
\* a call whose request was answered with a body that is not JSON
UndecodableCall ==
    /\ IsCall
    /\ last.sent # <<>>
    /\ ~last.response.body.json

\* C16: whenever the body of the response cannot be decoded, whatever the
\* status and the verb, the transport call fails with InvalidJsonError, the
\* decode failure of _exceptions.py, and with nothing else.
C16_DecodeFailure == UndecodableCall => last.transport = Raise("InvalidJsonError")

\* --------------------------------------------------------------- C17
\* a call answered 2xx with a success=true envelope that has no data member
NoDataCall ==
    /\ IsCall
    /\ last.sent # <<>>
    /\ Is2xx(last.response.status)
    /\ last.response.body.json
    /\ EnvelopeKeys \subseteq last.response.body.keys
    /\ last.response.body.success
    /\ "data" \notin last.response.body.keys

\* C17: for a 2xx response whose envelope has success=true and no data
\* member, the transport call returns null and does not fail.
C17_NullData == NoDataCall => last.transport = Return(NullData)

\* --------------------------------------------------------------- C18
\* C18: every call that reaches the transport sends exactly one request, and
\* when that round-trip fails the call ends with an error and has not sent a
\* second request.
C18_OneRoundTrip ==
    (IsCall /\ last.transport # NoOutcome) =>
        /\ Len(last.sent) = 1
        /\ last.transport.kind = "raise" => last.outcome.kind = "raise"

\* --------------------------------------------------------------- C19
\* a login-required operation the surface has, called without a token
NoTokenCall ==
    /\ IsCall
    /\ last.op \in ProtectedOps
    /\ last.transport # NoOutcome
    /\ last.pre.access_token = None

\* the url of the login request of a session
LoginUrl(self) == self.url \o <<"/">> \o lstrip(ApiPath("api/client/guide/login"))

\* C19: a login-required operation called while the session holds no token
\* first sends, on AsyncEcos, a login request and only then its own request,
\* which carries a token; on Ecos it sends its own request alone, with the
\* null token, and leaves the session as it was.
C19_AutoLogin ==
    NoTokenCall =>
        /\ last.surface = "AsyncEcos" =>
               /\ last.sent[1].verb = "POST"
               /\ last.sent[1].url = LoginUrl(last.pre)
               /\ Len(last.sent) > 1 =>
                      /\ last.sent[2].auth # None
                      /\ last.sent[2].url # LoginUrl(last.pre)
        /\ last.surface = "Ecos" =>
               /\ Len(last.sent) = 1
               /\ last.sent[1].url # LoginUrl(last.pre)
               /\ last.sent[1].auth = None
               /\ session = last.pre

\* --------------------------------------------------------------- C20
\* a get_* operation called twice in a row with the same arguments, both
\* calls answered by the mock
RepeatedGet ==
    /\ IsCall
    /\ last.op \in ProtectedOps
    /\ last.again.repeat

\* the 5-minute interval of its day a clock reading falls in: interval k is
\* (k - 1) * 5 min < time of day <= k * 5 min, midnight itself is interval 0
ClockInterval(now) ==
    LET time == now.sec % OneDay IN
    IF now.usec > 0 THEN (time \div FiveMinutes) + 1
    ELSE (time + FiveMinutes - 1) \div FiveMinutes

SameInterval(d1, d2) ==
    /\ Midnight(d1.sec) = Midnight(d2.sec)
    /\ ClockInterval(d1) = ClockInterval(d2)

\* C20 as stated: a get_* operation called twice in a row with the same
\* arguments against the mock ends both times the same way, with the same
\* payload or the same error, and sends the same request both times.
C20_Idempotent ==
    RepeatedGet =>
        /\ last.outcome = last.again.outcome
        /\ last.sent = last.again.sent

\* C20, amended: a get_* operation called twice in a row with the same
\* arguments against the mock, the mock's clock reading of both calls lying
\* in the same 5-minute interval of the same day, ends both times the same
\* way, with the same payload or the same error, and sends the same request
\* both times.
C20_IdempotentWithinInterval ==
    (RepeatedGet /\ SameInterval(last.again.server.now, last.server.now)) =>
        /\ last.outcome = last.again.outcome
        /\ last.sent = last.again.sent

C20_Witness ==
    /\ RepeatedGet
    /\ last.op = "get_today_device_data"
    /\ last.server.now # last.again.server.now
    /\ SameInterval(last.again.server.now, last.server.now)
    /\ last.outcome.kind = "return"
    /\ Cardinality(DOMAIN last.outcome.value.power.dps) = 2

\* --------------------------------------------------------------- C21
\* a call of op that sent its request
SentCall(op) ==
    /\ IsCall
    /\ last.op = op
    /\ last.sent # <<>>

\* the whole seconds and the whole milliseconds from the epoch to d
WholeSeconds(d) == d.sec
WholeMilliseconds(d) == d.sec * 1000 + (d.usec \div 1000)

\* C21: for every start_date at or after the epoch, get_history sends as
\* timestamp the whole seconds from the epoch to start_date, get_insight
\* sends the whole milliseconds, and the timestamp get_insight sends,
\* divided by 1000, is the timestamp get_history sends for that start_date.
C21_Timestamps ==
    /\ SentCall("get_history") =>
           last.sent[1].payload.timestamp = WholeSeconds(last.args.start_date)
    /\ SentCall("get_insight") =>
           /\ last.sent[1].payload.timestamp = WholeMilliseconds(last.args.start_date)
           /\ last.sent[1].payload.timestamp \div 1000
                  = history_start_ts[last.args.start_date]

\* --------------------------------------------------------------- C22
\* the verb and the route of each operation (spec.md 4.4)
OperationTable ==
    [login |-> <<"POST", "api/client/guide/login">>,
     get_user_info |-> <<"GET", "api/client/settings/user/info">>,
     get_homes |-> <<"GET", "api/client/v2/home/family/query">>,
     get_devices |-> <<"GET", "api/client/v2/home/device/query">>,
     get_all_devices |-> <<"GET", "api/client/home/device/list">>,
     get_today_device_data |-> <<"POST", "api/client/home/now/device/realtime">>,
     get_realtime_home_data |-> <<"GET", "api/client/v2/home/device/runData">>,
     get_realtime_device_data |-> <<"POST", "api/client/home/now/device/runData">>,
     get_history |-> <<"POST", "api/client/home/history/home">>,
     get_insight |-> <<"POST", "api/client/v2/device/three/device/insight">>]

\* C22: every operation, on both surfaces, sends its request with the verb
\* and to the path the operation table gives for it, so that the mock never
\* answers it from its catch-all route.
C22_Routes ==
    IsCall =>
        /\ Len(last.sent) >= 1
        /\ last.sent[1].verb = OperationTable[last.op][1]
        /\ last.sent[1].url = last.pre.url \o <<"/", OperationTable[last.op][2]>>
        /\ IsMock(last.server) => last.response # catch_all(last.sent[1])

\* --------------------------------------------------------------- C23
\* a call answered 2xx with a complete envelope whose success is false
BusinessFailure ==
    /\ IsCall
    /\ last.sent # <<>>
    /\ Is2xx(last.response.status)
    /\ last.response.body.json
    /\ EnvelopeKeys \subseteq last.response.body.keys
    /\ ~last.response.body.success

\* C23: whenever a 2xx response carries an envelope with success=false, the
\* transport call raises ApiResponseError with the code and the message of
\* the envelope as its fields.
C23_ApiResponseError ==
    BusinessFailure =>
        last.transport = RaiseCode("ApiResponseError", last.response.body.code,
                                   last.response.body.message)

\* --------------------------------------------------------------- C24
\* a call the mock answered with an envelope
MockEnvelope ==
    /\ IsCall
    /\ last.sent # <<>>
    /\ IsMock(last.server)
    /\ last.response.body.json
    /\ EnvelopeKeys \subseteq last.response.body.keys

\* C24: in every envelope the mock sends, success is true if and only if
\* code is 0, and every envelope with success true is sent with status 200.
C24_SuccessIffCodeZero ==
    MockEnvelope =>
        /\ last.response.body.success <=> last.response.body.code = 0
        /\ last.response.body.success => last.response.status = 200

C24_Witness ==
    /\ MockEnvelope
    /\ last.op = "get_history"
    /\ last.response.status = 200
    /\ ~last.response.body.success
    /\ last.response.body.code = 20404

\* --------------------------------------------------------------- C25
\* a request the mock answered on one of its protected routes
ProtectedRequest ==
    /\ IsCall
    /\ last.op \in ProtectedOps
    /\ last.sent # <<>>
    /\ IsMock(last.server)

\* the period types the mock implements, of those it accepts
ImplementedPeriods(op) == IF op = "get_history" THEN {4} ELSE {0}

Has(payload, key) == key \in DOMAIN payload

\* C25: on every protected route the mock applies its checks in one order
\* and answers by the first that fails: a token other than the issued one
\* gives 401 Unauthorized; else an unknown home id gives code 20450 and an
\* unknown device id code 20424; else a period type out of range gives code
\* 20404; else a period type not implemented gives the not-implemented
\* answer; otherwise the envelope is a success.
C25_CheckOrder ==
    ProtectedRequest =>
        LET request == last.sent[1]
            payload == request.payload
            body == last.response.body
        IN  IF request.auth # MockAccessToken
            THEN /\ last.response.status = 401
                 /\ body.json /\ ~body.success /\ body.code = 401
            ELSE IF Has(payload, "homeId") /\ payload.homeId # KnownHomeId
            THEN body.json /\ ~body.success /\ body.code = 20450
            ELSE IF Has(payload, "deviceId") /\ payload.deviceId # KnownDeviceId
            THEN body.json /\ ~body.success /\ body.code = 20424
            ELSE IF /\ Has(payload, "periodType")
                    /\ payload.periodType \notin AcceptedPeriods(last.op)
            THEN body.json /\ ~body.success /\ body.code = 20404
            ELSE IF /\ Has(payload, "periodType")
                    /\ payload.periodType \notin ImplementedPeriods(last.op)
            THEN last.response = not_implemented_response
            ELSE body.json /\ body.success /\ last.response.status = 200

C25_Witness ==
    /\ ProtectedRequest
    /\ last.op = "get_history"
    /\ last.sent[1].auth = MockAccessToken
    /\ last.sent[1].payload.deviceId # KnownDeviceId
    /\ last.sent[1].payload.periodType \notin AcceptedPeriods("get_history")
    /\ last.response.body.code = 20424

\* ------------------------------------------------------------------ C26
\* The windows _generate_metrics_data is applied to: start_date at a whole
\* second, end_date before, at and after it, on and off the multiples of
\* the interval.
MetricsInit ==
    /\ session = NoSession
    /\ last \in {[op |-> "window",
                  args |-> [start_date |-> start,
                            end_date |-> Timestamp(start + span, usec)]] :
                    start \in {86400, 1699920000},
                    span \in {-300, -1, 0, 1, 299, 300, 301, 450, 599, 600, 601,
                              900, 3600, 86399, 86400},
                    usec \in {0, 1, 999999}}

\* one call of _generate_metrics_data on the window drawn
MetricsGenerate ==
    /\ last.op = "window"
    /\ last' = [op |-> "_generate_metrics_data", args |-> last.args,
                fake_data |-> generate_metrics_data(last.args.start_date,
                                                    last.args.end_date)]
    /\ UNCHANGED session

MetricsSpec == MetricsInit /\ [][MetricsGenerate]_vars

\* C26: for every window [start_date, end_date) and the 5-minute interval,
\* _generate_metrics_data returns the empty mapping when start_date is not
\* before end_date, and otherwise exactly ceil((end_date - start_date) /
\* interval) entries, the k-th (k from 1) keyed str(start_date + k * interval)
\* in epoch seconds with the value k / 10 (here in tenths); and every key
\* is a time after start_date and not after end_date.
C26_Metrics ==
    last.op = "_generate_metrics_data" =>
        LET start == last.args.start_date
            end_date == last.args.end_date
            span == end_date.sec - start
            count == IF Before(Timestamp(start, 0), end_date)
                     THEN (span \div FiveMinutes)
                          + (IF span % FiveMinutes = 0 /\ end_date.usec = 0
                             THEN 0 ELSE 1)
                     ELSE 0
            fake_data == last.fake_data
        IN  /\ DOMAIN fake_data = {start + k * FiveMinutes : k \in 1..count}
            /\ \A k \in 1..count : fake_data[start + k * FiveMinutes] = k
            /\ \A key \in DOMAIN fake_data :
                   /\ Before(Timestamp(start, 0), Timestamp(key, 0))
                   /\ ~Before(end_date, Timestamp(key, 0))

\* the part of C26 that is about the number, the keys and the values of the
\* entries holds; only the last key can lie after end_date
C26_Entries ==
    last.op = "_generate_metrics_data" =>
        LET start == last.args.start_date
            end_date == last.args.end_date
            span == end_date.sec - start
            count == IF Before(Timestamp(start, 0), end_date)
                     THEN (span \div FiveMinutes)
                          + (IF span % FiveMinutes = 0 /\ end_date.usec = 0
                             THEN 0 ELSE 1)
                     ELSE 0
            fake_data == last.fake_data
        IN  /\ DOMAIN fake_data = {start + k * FiveMinutes : k \in 1..count}
            /\ \A k \in 1..count : fake_data[start + k * FiveMinutes] = k
            /\ \A key \in DOMAIN fake_data :
                   /\ Before(Timestamp(start, 0), Timestamp(key, 0))
                   /\ Before(Timestamp(key - FiveMinutes, 0), end_date)

\* ------------------------------------------------------------------ C27
\* C27: with the issued token and the known device, get_today_device_data
\* returns, whatever the mock's clock reads (midnight itself included), a
\* payload in which each of the six power series has at least one entry and
\* all six have the same keys.
C27_TodayData ==
    KnownDeviceCall("get_today_device_data") =>
        /\ last.outcome.kind = "return"
        /\ last.outcome.value.tag = "dict"
        /\ Cardinality(last.outcome.value.power.series) = 6
        /\ DOMAIN last.outcome.value.power.dps # {}

\* what does hold: on the non-blocking surface the six series are returned
\* with the same keys, and they are empty only when the clock reads midnight
C27_TodayDataAfterMidnight ==
    (KnownDeviceCall("get_today_device_data") /\ last.surface = "AsyncEcos") =>
        /\ last.outcome.kind = "return"
        /\ last.outcome.value.tag = "dict"
        /\ Cardinality(last.outcome.value.power.series) = 6
        /\ (DOMAIN last.outcome.value.power.dps = {}) <=>
               (last.server.now = Timestamp(Midnight(last.server.now.sec), 0))

\* the blocking surface has no get_today_device_data at all
C27_TodayDataEcos ==
    (KnownDeviceCall("get_today_device_data") /\ last.surface = "Ecos") =>
        last.outcome = Raise("AttributeError")

\* ------------------------------------------------------------------ C28
\* get_homes returned the list of homes the server sent
ReturnedHomes ==
    /\ IsCall
    /\ last.op = "get_homes"
    /\ last.outcome.kind = "return"

\* C28: get_homes returns the homes in the order and the number the server
\* sent them and changes nothing but the name of the homes of homeType 0: a
\* home of another homeType keeps its name, every other field of every home
\* is as it was sent, and the session is as it was before the call.
C28_HomesFrame ==
    ReturnedHomes =>
        LET vendor == last.response.body.data
            home_list == last.outcome.value
        IN  /\ vendor.tag = "list"
            /\ home_list.tag = "list"
            /\ DOMAIN home_list.homes = DOMAIN vendor.homes
            /\ \A i \in DOMAIN vendor.homes :
                   /\ [home_list.homes[i] EXCEPT !.homeName = vendor.homes[i].homeName]
                          = vendor.homes[i]
                   /\ PyInt(vendor.homes[i].homeType) # 0 =>
                          home_list.homes[i] = vendor.homes[i]
            /\ session = last.pre

\* two homes were sent, the first of homeType 0 and renamed by the call,
\* the second of homeType 1 and named "My Home"
C28_Witness ==
    /\ ReturnedHomes
    /\ Len(last.response.body.data.homes) = 2
    /\ last.response.body.data.homes[1].homeType = IntV(0)
    /\ last.response.body.data.homes[1].homeName = "My Home"
    /\ last.outcome.value.homes[1].homeName = "SHARED_DEVICES"
    /\ last.response.body.data.homes[2].homeType = IntV(1)
    /\ last.outcome.value.homes[2].homeName = "My Home"

\* ------------------------------------------------------------------ C29
\* Operations of one AsyncEcos session run as tasks of one event loop.  A
\* coroutine runs without interruption from one await to the next, and each
\* operation of async_client.py awaits once, on its round-trip: a task
\* builds and sends its request from the session as it is then, is
\* suspended while the round-trip is in flight, and is resumed with the
\* response, or cancelled, in any order with the other tasks.  Then
\*   session is the session the tasks share, and
\*   last    is the loop: its tasks, the latest step and the session
\*           before that step.
\* A task that was sent records seen (the session its request was built
\* from) and after (the tasks that had been resumed by then); a resumed
\* task records the session before and after its resumption.
MaxTasks == 2

LoopInit ==
    \E access_token \in AccessTokens, refresh_token \in RefreshTokens :
        /\ session = AsyncEcos_init(None, Url(MockUrl), access_token,
                                    refresh_token).self
        /\ last = [op |-> "gather", tasks |-> [i \in 1..MaxTasks |-> [state |-> "new"]],
                   step |-> "none", task |-> 0, pre |-> session]

\* the operation runs up to its await: the request is sent
Send ==
    \E i \in 1..MaxTasks, op \in {"login", "get_user_info"} :
      \E a \in IF op = "login"
               THEN {[email |-> LOGIN, password |-> password, t |-> t] :
                        password \in Passwords, t \in Times}
               ELSE {<<>>},
         server \in {MockServer(FirstClock),
                     VendorServer(Response(200, FailBody(20414)))}
                    \cup {VendorServer(Response(200, SuccessBody(d))) :
                            d \in VendorData(op)} :
        /\ last.tasks[i].state = "new"
        /\ Explored(server, a, [email |-> LOGIN, password |-> PASSWORD,
                                t |-> 1700000000])
        /\ last' = [last EXCEPT
                      !.tasks[i] =
                          [state |-> "flight", op |-> op, args |-> a,
                           seen |-> session,
                           after |-> {j \in 1..MaxTasks :
                                         last.tasks[j].state = "done"},
                           response |-> AsyncEcos_call(op, session, a,
                                                       server).response],
                      !.step = "send", !.task = i, !.pre = session]
        /\ UNCHANGED session

\* the await returns: the rest of the operation runs, on the session as it
\* is now, with the response its request was answered with
Resume ==
    \E i \in 1..MaxTasks :
        /\ last.tasks[i].state = "flight"
        /\ \E done \in {AsyncEcos_call(last.tasks[i].op, session,
                                       last.tasks[i].args,
                                       VendorServer(last.tasks[i].response))} :
            /\ session' = done.self
            /\ last' = [last EXCEPT
                          !.tasks[i] =
                              [state |-> "done", op |-> last.tasks[i].op,
                               args |-> last.tasks[i].args,
                               seen |-> last.tasks[i].seen,
                               after |-> last.tasks[i].after,
                               response |-> last.tasks[i].response,
                               outcome |-> done.outcome,
                               before |-> session, self |-> done.self],
                          !.step = "resume", !.task = i, !.pre = session]

\* task.cancel(): the await raises CancelledError, which no except clause of
\* the operations catches, and the rest of the operation does not run
Cancel ==
    \E i \in 1..MaxTasks :
        /\ last.tasks[i].state = "flight"
        /\ last' = [last EXCEPT
                      !.tasks[i] = [last.tasks[i] EXCEPT !.state = "cancelled"],
                      !.step = "cancel", !.task = i, !.pre = session]
        /\ UNCHANGED session

LoopSpec == LoopInit /\ [][Send \/ Resume \/ Cancel]_vars

\* the login of task i replaced the access token and left the refresh token
\* the session held
WroteAccessTokenOnly(i) ==
    /\ last.tasks[i].state = "done"
    /\ last.tasks[i].op = "login"
    /\ last.tasks[i].self.access_token # last.tasks[i].before.access_token
    /\ last.tasks[i].self.refresh_token = last.tasks[i].before.refresh_token

\* task j was sent after the login of task i was resumed, from the session
\* as that login left it
ObservedBy(i, j) ==
    /\ last.tasks[j].state # "new"
    /\ i \in last.tasks[j].after
    /\ last.tasks[j].seen = last.tasks[i].self

C29_CancelAndCompleteLogin ==
    /\ last.step = "cancel" => session = last.pre
    /\ \A i \in 1..MaxTasks :
           (last.tasks[i].state = "cancelled" /\ last.tasks[i].op = "login"
               /\ ~\E j \in 1..MaxTasks :
                      last.tasks[j].state = "done" /\ last.tasks[j].op = "login")
           => session = last.tasks[i].seen
    /\ \A i \in 1..MaxTasks :
           (WroteAccessTokenOnly(i) /\ last.tasks[i].outcome.kind = "return")
           => last.tasks[i].self.refresh_token = MockRefreshToken
    /\ \A i, j \in 1..MaxTasks :
           (i # j /\ WroteAccessTokenOnly(i) /\ ObservedBy(i, j))
           => last.tasks[i].outcome.kind = "raise"

\* ------------------------------------------------------------------ C30
\* the error kinds of the library: the classes of ecactus/_exceptions.py and
\* the semantic errors async_client.py raises
ErrorKinds ==
    {"EcosApiError", "InitializationError", "HttpError", "InvalidJsonError",
     "ApiResponseError", "AuthenticationError", "UnauthorizedError",
     "HomeDoesNotExistError", "UnauthorizedDeviceError",
     "ParameterVerificationFailedError"}

FailedLogin ==
    /\ IsCall
    /\ last.op = "login"
    /\ last.outcome.kind = "raise"

\* C30: a login that fails, for whatever reason, leaves access_token and
\* refresh_token exactly as they were before the call, and the failure is
\* reported as one of the library's error kinds.
C30_FailedLogin ==
    FailedLogin =>
        /\ session.access_token = last.pre.access_token
        /\ session.refresh_token = last.pre.refresh_token
        /\ last.outcome.exc \in ErrorKinds

\* the login was answered with a status that is not 2xx, with a body that
\* is not a JSON envelope, or with an envelope that reports a failure
RefusedLogin ==
    \/ ~Is2xx(last.response.status)
    \/ ~last.response.body.json
    \/ ~(EnvelopeKeys \subseteq last.response.body.keys)
    \/ ~last.response.body.success

\* what does hold: a login refused by the server writes no token
C30_RefusedLoginWritesNothing == (FailedLogin /\ RefusedLogin) => session = last.pre

\* a login answered with a payload without refreshToken fails after it has
\* replaced the access token
C30_TornLogin ==
    /\ FailedLogin
    /\ last.outcome.exc = "KeyError"
    /\ session.access_token # last.pre.access_token
    /\ session.refresh_token = last.pre.refresh_token

====
